---- MODULE Spec2Model ----
(***************************************************************************)
(* Model of bedrock-usage/app.py: the CloudWatch Logs Insights query       *)
(* orchestrator (get_bedrock_usage), the aggregation pass                  *)
(* (_process_logs_insights_results) with the model / user resolvers, and   *)
(* the cost matrix builder (cost_matrix_api).                              *)
(*                                                                         *)
(* Strings are TLA+ strings, i.e. sequences of characters: Len, SubSeq and *)
(* \o act on them character by character.                                  *)
(*                                                                         *)
(* Money.  Prices are integers in units of 1e-5 USD per million tokens     *)
(* (0.25 USD is 25000, 0.00875 USD is 875); a cost is tokens * price, an   *)
(* integer in units of 1e-11 USD, which is (tokens / 1e6) * price computed *)
(* exactly.  The program computes in binary doubles; the model computes    *)
(* the same expressions in exact decimal arithmetic.                       *)
(***************************************************************************)
EXTENDS Integers, Sequences, FiniteSets, TLC

VARIABLES
    now,            \* time.time(), seconds
    _query_cache,   \* module-level dict: cache key -> entry
    pc,             \* per caller: position inside get_bedrock_usage
    days,           \* per caller: the `days` argument (0: not in a call)
    query_id,       \* per caller: local query_id (0: not assigned)
    elapsed,        \* per caller: local elapsed
    status,         \* per caller: local status (last polled)
    ret,            \* per caller: value returned by the last completed call
    issued,         \* history: the queries start_query created; queryId = index
    calls,          \* history: number of get_bedrock_usage calls begun
    records,        \* input of one aggregation pass
    data,           \* what _process_logs_insights_results did with `records`
    matrix,         \* what cost_matrix_api built from `data`
    raw_model,      \* a modelId as the logs deliver it
    raw_identity,   \* an identity.arn as the logs deliver it
    resolved        \* what a resolver function returned for them

orchVars == <<now, _query_cache, pc, days, query_id, elapsed,
              status, ret, issued, calls>>
aggVars == <<records, data, matrix>>
resVars == <<raw_model, raw_identity, resolved>>
vars == <<now, _query_cache, pc, days, query_id, elapsed,
          status, ret, issued, calls, records, data, matrix,
          raw_model, raw_identity, resolved>>

\* Python None in a str variable
None == "None"

\* a variable that holds no dict yet
NoValue == [none |-> TRUE]

(***************************************************************************)
(* Python string primitives.                                               *)
(***************************************************************************)
\* s.startswith(p)
StartsWith(s, p) ==
    Len(s) >= Len(p) /\ SubSeq(s, 1, Len(p)) = p

\* s.find(p) + 1: position of the first occurrence of p in s, 0 if none
Find(s, p) ==
    LET hits == {i \in 1..(Len(s) - Len(p) + 1) : SubSeq(s, i, i + Len(p) - 1) = p}
    IN  IF hits = {} THEN 0 ELSE CHOOSE i \in hits : \A j \in hits : i <= j

\* p in s
Contains(s, p) == Find(s, p) # 0

\* s.split(p, 1)[1], for s that contains p
AfterFirst(s, p) == SubSeq(s, Find(s, p) + Len(p), Len(s))

\* s.split(p)[0]
BeforeFirst(s, p) ==
    IF Contains(s, p) THEN SubSeq(s, 1, Find(s, p) - 1) ELSE s

Digits == <<"0", "1", "2", "3", "4", "5", "6", "7", "8", "9">>

IsDigit(c) == \E d \in 1..Len(Digits) : Digits[d] = c

DigitVal(c) == (CHOOSE d \in 1..Len(Digits) : Digits[d] = c) - 1

\* int(s) accepts an optional sign followed by decimal digits
IsIntLiteral(s) ==
    LET body == IF Len(s) > 0 /\ SubSeq(s, 1, 1) \in {"-", "+"}
                THEN SubSeq(s, 2, Len(s)) ELSE s
    IN  Len(body) > 0 /\ \A i \in 1..Len(body) : IsDigit(SubSeq(body, i, i))

RECURSIVE DigitsVal(_)
DigitsVal(s) ==
    IF Len(s) = 0 THEN 0
    ELSE 10 * DigitsVal(SubSeq(s, 1, Len(s) - 1)) + DigitVal(SubSeq(s, Len(s), Len(s)))

\* int(v) for a str v: [ok |-> TRUE, val |-> n], or ok = FALSE for ValueError
ParseInt(v) ==
    IF ~IsIntLiteral(v) THEN [ok |-> FALSE, val |-> 0]
    ELSE IF SubSeq(v, 1, 1) = "-" THEN [ok |-> TRUE, val |-> 0 - DigitsVal(SubSeq(v, 2, Len(v)))]
    ELSE IF SubSeq(v, 1, 1) = "+" THEN [ok |-> TRUE, val |-> DigitsVal(SubSeq(v, 2, Len(v)))]
    ELSE [ok |-> TRUE, val |-> DigitsVal(v)]

\* s.replace(old, new): every occurrence, left to right, not overlapping
RECURSIVE Replace(_, _, _)
Replace(s, old, new) ==
    IF ~Contains(s, old) THEN s
    ELSE SubSeq(s, 1, Find(s, old) - 1) \o new \o Replace(AfterFirst(s, old), old, new)

LowerCase == "abcdefghijklmnopqrstuvwxyz"
UpperCase == "ABCDEFGHIJKLMNOPQRSTUVWXYZ"

\* c.upper() and c.lower() for one character
Upper(c) ==
    IF Contains(LowerCase, c)
    THEN SubSeq(UpperCase, Find(LowerCase, c), Find(LowerCase, c)) ELSE c

Lower(c) ==
    IF Contains(UpperCase, c)
    THEN SubSeq(LowerCase, Find(UpperCase, c), Find(UpperCase, c)) ELSE c

\* s.lower()
RECURSIVE LowerAll(_)
LowerAll(s) ==
    IF Len(s) = 0 THEN s ELSE Lower(SubSeq(s, 1, 1)) \o LowerAll(SubSeq(s, 2, Len(s)))

\* word.capitalize(): first character upper case, the rest lower case
Capitalize(word) ==
    IF Len(word) = 0 THEN word
    ELSE Upper(SubSeq(word, 1, 1)) \o LowerAll(SubSeq(word, 2, Len(word)))

\* s.split(): the words between runs of blanks
RECURSIVE Words(_)
Words(s) ==
    IF Len(s) = 0 THEN <<>>
    ELSE IF SubSeq(s, 1, 1) = " " THEN Words(SubSeq(s, 2, Len(s)))
    ELSE <<BeforeFirst(s, " ")>> \o Words(SubSeq(s, Len(BeforeFirst(s, " ")) + 1, Len(s)))

\* ' '.join(words)
RECURSIVE Join(_)
Join(words) ==
    IF Len(words) = 0 THEN ""
    ELSE IF Len(words) = 1 THEN words[1]
    ELSE words[1] \o " " \o Join(Tail(words))

(***************************************************************************)
(* ModelIdentityResolver                                                   *)
(***************************************************************************)
\* BEDROCK_PRICING in insertion order; input / output in 1e-5 USD per million
BEDROCK_PRICING == <<
    [key |-> "anthropic.claude-sonnet-4-5-20250929-v1:0", input |-> 330000, output |-> 1650000],
    [key |-> "anthropic.claude-sonnet-4-5-20250929-v1:0[1m]", input |-> 660000, output |-> 2475000],
    [key |-> "anthropic.claude-haiku-4-5-20251001-v1:0", input |-> 110000, output |-> 550000],
    [key |-> "anthropic.claude-sonnet-4-20250514-v1:0", input |-> 300000, output |-> 1500000],
    [key |-> "anthropic.claude-3-5-sonnet-20240620-v1:0", input |-> 300000, output |-> 1500000],
    [key |-> "anthropic.claude-3-5-haiku-20241022-v1:0", input |-> 100000, output |-> 500000],
    [key |-> "anthropic.claude-3-haiku-20240307-v1:0", input |-> 25000, output |-> 125000],
    [key |-> "anthropic.claude-opus-4-20250514-v1:0", input |-> 1500000, output |-> 7500000],
    [key |-> "anthropic.claude-opus-4-1-20250805-v1:0", input |-> 1500000, output |-> 7500000],
    [key |-> "openai.gpt-oss-20b-1:0", input |-> 7000, output |-> 30000],
    [key |-> "openai.gpt-oss-120b-1:0", input |-> 15000, output |-> 60000],
    [key |-> "deepseek.deepseek-r1", input |-> 135000, output |-> 540000],
    [key |-> "deepseek.deepseek-v3.1", input |-> 58000, output |-> 168000],
    [key |-> "qwen.qwen3-coder-30b-a3b", input |-> 15000, output |-> 60000],
    [key |-> "qwen.qwen3-32b", input |-> 15000, output |-> 60000],
    [key |-> "qwen.qwen3-235b-a22b-2507", input |-> 22000, output |-> 88000],
    [key |-> "qwen.qwen3-coder-480b-a35b", input |-> 22000, output |-> 180000],
    [key |-> "amazon.nova-micro-v1:0", input |-> 3500, output |-> 875],
    [key |-> "amazon.nova-lite-v1:0", input |-> 6000, output |-> 1500],
    [key |-> "amazon.nova-pro-v1:0", input |-> 80000, output |-> 20000],
    [key |-> "amazon.nova-premier-v1:0", input |-> 250000, output |-> 62500],
    [key |-> "default", input |-> 0, output |-> 0] >>

RegionPrefixes == {"us", "global", "eu", "ap"}

\* strip_model_prefix without the step that takes the ARN wrapper off
strip_region_only(model_id) ==
    IF Contains(model_id, ".") /\ BeforeFirst(model_id, ".") \in RegionPrefixes
    THEN AfterFirst(model_id, ".")
    ELSE model_id

strip_model_prefix(model_id) ==
    LET m == IF Contains(model_id, ":inference-profile/")
             THEN AfterFirst(model_id, ":inference-profile/")
             ELSE model_id
    IN  IF Contains(m, ".") /\ BeforeFirst(m, ".") \in RegionPrefixes
        THEN AfterFirst(m, ".")
        ELSE m

\* position in BEDROCK_PRICING of the entry whose key is exactly id, 0 if none
PricingIndex(id) ==
    LET hits == {i \in 1..Len(BEDROCK_PRICING) : BEDROCK_PRICING[i].key = id}
    IN  IF hits = {} THEN 0 ELSE CHOOSE i \in hits : TRUE

\* first entry, in table order, that the partial-match loop accepts; 0 if none
PartialIndex(model_id, clean_model_id) ==
    LET hits == {i \in 1..Len(BEDROCK_PRICING) :
                    LET key == BEDROCK_PRICING[i].key
                    IN  \/ Contains(clean_model_id, key) \/ Contains(key, clean_model_id)
                        \/ Contains(model_id, key) \/ Contains(key, model_id)}
    IN  IF hits = {} THEN 0 ELSE CHOOSE i \in hits : \A j \in hits : i <= j

\* get_model_pricing without the partial-match loop
get_model_pricing_exact(model_id) ==
    LET clean_model_id == strip_model_prefix(model_id)
        hit == IF PricingIndex(clean_model_id) # 0 THEN PricingIndex(clean_model_id)
               ELSE PricingIndex(model_id)
    IN  IF hit # 0
        THEN [input |-> BEDROCK_PRICING[hit].input, output |-> BEDROCK_PRICING[hit].output,
              warned |-> FALSE]
        ELSE [input |-> 0, output |-> 0, warned |-> TRUE]

\* the returned entry, and whether the WARNING line was printed
get_model_pricing(model_id) ==
    LET clean_model_id == strip_model_prefix(model_id)
        Entry(i) == [input |-> BEDROCK_PRICING[i].input,
                     output |-> BEDROCK_PRICING[i].output, warned |-> FALSE]
    IN  IF PricingIndex(clean_model_id) # 0 THEN Entry(PricingIndex(clean_model_id))
        ELSE IF PricingIndex(model_id) # 0 THEN Entry(PricingIndex(model_id))
        ELSE IF PartialIndex(model_id, clean_model_id) # 0
             THEN Entry(PartialIndex(model_id, clean_model_id))
        ELSE [input |-> BEDROCK_PRICING[PricingIndex("default")].input,
              output |-> BEDROCK_PRICING[PricingIndex("default")].output,
              warned |-> TRUE]

\* re.search(r'-\d{8}', s): position of the first '-' that eight digits
\* follow, 0 if there is none
DateSuffixAt(s) ==
    LET hits == {i \in 1..(Len(s) - 8) :
                    /\ SubSeq(s, i, i) = "-"
                    /\ \A k \in 1..8 : IsDigit(SubSeq(s, i + k, i + k))}
    IN  IF hits = {} THEN 0 ELSE CHOOSE i \in hits : \A j \in hits : i <= j

\* re.sub(r'-\d{8}.*$', '', s)
StripDateSuffix(s) ==
    IF DateSuffixAt(s) = 0 THEN s ELSE SubSeq(s, 1, DateSuffixAt(s) - 1)

\* re.sub(r'(-v\d:0|-\d:0)$', '', s)
StripVersionSuffix(s) ==
    LET n == Len(s)
    IN  IF /\ n >= 5
           /\ SubSeq(s, n - 4, n - 3) = "-v"
           /\ IsDigit(SubSeq(s, n - 2, n - 2))
           /\ SubSeq(s, n - 1, n) = ":0"
        THEN SubSeq(s, 1, n - 5)
        ELSE IF /\ n >= 4
                /\ SubSeq(s, n - 3, n - 3) = "-"
                /\ IsDigit(SubSeq(s, n - 2, n - 2))
                /\ SubSeq(s, n - 1, n) = ":0"
        THEN SubSeq(s, 1, n - 4)
        ELSE s

get_model_display_name(model_id) ==
    LET has_extended_thinking == Contains(model_id, "[1m]")
        unmarked == IF has_extended_thinking THEN Replace(model_id, "[1m]", "") ELSE model_id
        no_provider == IF Contains(unmarked, ".") THEN AfterFirst(unmarked, ".") ELSE unmarked
        no_date == StripDateSuffix(no_provider)
        clean_id == IF DateSuffixAt(model_id) = 0 THEN StripVersionSuffix(no_date) ELSE no_date
        words == Words(Replace(Replace(clean_id, "-", " "), "_", " "))
        display_name == Join([i \in 1..Len(words) |-> Capitalize(words[i])])
    IN  IF has_extended_thinking THEN display_name \o " (1m)" ELSE display_name

(***************************************************************************)
(* UserIdentityResolver                                                    *)
(***************************************************************************)
USER_MAP == << [primary |-> "peterdir", aliases |-> <<"aider", "dirkcli">>] >>

\* normalize_username that leaves the 'bedrock-' prefix on
normalize_username_keep_prefix(raw_user) ==
    IF \E i \in 1..Len(USER_MAP) : USER_MAP[i].primary = raw_user THEN raw_user
    ELSE IF \E i \in 1..Len(USER_MAP) : \E a \in 1..Len(USER_MAP[i].aliases) :
                USER_MAP[i].aliases[a] = raw_user
         THEN USER_MAP[1].primary
    ELSE IF Contains(raw_user, ":") \/ StartsWith(raw_user, "arn") THEN "Other"
    ELSE raw_user

\* normalize_username without the collapse to 'Other'
normalize_username_keep_opaque(raw_user) ==
    LET user == IF StartsWith(raw_user, "bedrock-")
                THEN SubSeq(raw_user, Len("bedrock-") + 1, Len(raw_user))
                ELSE raw_user
    IN  IF \E i \in 1..Len(USER_MAP) : USER_MAP[i].primary = user THEN user
        ELSE IF \E i \in 1..Len(USER_MAP) : \E a \in 1..Len(USER_MAP[i].aliases) :
                    USER_MAP[i].aliases[a] = user
             THEN USER_MAP[1].primary
        ELSE user

normalize_username(raw_user) ==
    LET user == IF StartsWith(raw_user, "bedrock-")
                THEN SubSeq(raw_user, Len("bedrock-") + 1, Len(raw_user))
                ELSE raw_user
        primaries == {i \in 1..Len(USER_MAP) : USER_MAP[i].primary = user}
        aliased == {i \in 1..Len(USER_MAP) :
                       \E a \in 1..Len(USER_MAP[i].aliases) : USER_MAP[i].aliases[a] = user}
    IN  IF primaries # {} THEN user
        ELSE IF aliased # {}
             THEN USER_MAP[CHOOSE i \in aliased : \A j \in aliased : i <= j].primary
        ELSE IF Contains(user, ":") \/ StartsWith(user, "arn") THEN "Other"
        ELSE user

\* the actor name taken out of identity.arn
ExtractUser(user_arn) ==
    IF Contains(user_arn, "user/")
    THEN BeforeFirst(AfterFirst(user_arn, "user/"), "/")
    ELSE IF Contains(user_arn, "assumed-role/")
    THEN BeforeFirst(AfterFirst(user_arn, "assumed-role/"), "/")
    ELSE IF Contains(user_arn, ":root") THEN "root"
    ELSE user_arn

(***************************************************************************)
(* Dictionaries: a dict is a function whose DOMAIN is its key set.         *)
(***************************************************************************)
EmptyMap == [k \in {} |-> 0]

\* d[k] = v
Put(d, k, v) == [x \in (DOMAIN d) \cup {k} |-> IF x = k THEN v ELSE d[x]]

\* d.get(k, default)
Get(d, k, default) == IF k \in DOMAIN d THEN d[k] ELSE default

\* d[k] += v on a defaultdict(int) / defaultdict(float)
Add(d, k, v) == Put(d, k, Get(d, k, 0) + v)

\* d[k1][k2] += v on a defaultdict of defaultdicts
Add2(d, k1, k2, v) == Put(d, k1, Add(Get(d, k1, EmptyMap), k2, v))

\* d[k1][k2][k3] += v
Add3(d, k1, k2, k3, v) == Put(d, k1, Add2(Get(d, k1, EmptyMap), k2, k3, v))

\* {k: v for k, v in d.items() if k != drop}
Without(d, drop) == [x \in (DOMAIN d) \ {drop} |-> d[x]]

\* sum(d.values())
RECURSIVE SumValues(_)
SumValues(d) ==
    IF DOMAIN d = {} THEN 0
    ELSE LET k == CHOOSE x \in DOMAIN d : TRUE
         IN  d[k] + SumValues([x \in (DOMAIN d) \ {k} |-> d[x]])

(***************************************************************************)
(* AggregationEngine: _process_logs_insights_results                       *)
(***************************************************************************)
\* a row entry from which field['field'] and field['value'] can both be read
WellFormedEntry(e) == {"field", "value"} \subseteq DOMAIN e

\* {field['field']: field['value'] for field in record}
RECURSIVE RowFields(_)
RowFields(record) ==
    IF Len(record) = 0 THEN EmptyMap
    ELSE Put(RowFields(SubSeq(record, 1, Len(record) - 1)),
             record[Len(record)].field, record[Len(record)].value)

\* int(fields.get(name, 0))
FieldInt(fields, name) ==
    IF name \in DOMAIN fields THEN ParseInt(fields[name]) ELSE [ok |-> TRUE, val |-> 0]

\* the state of the accumulators before the loop
EmptyAcc ==
    [user_invocations |-> EmptyMap, daily_trend |-> EmptyMap, model_usage |-> EmptyMap,
     user_tokens_input |-> EmptyMap, user_tokens_output |-> EmptyMap,
     user_costs |-> EmptyMap,
     model_tokens_input |-> EmptyMap, model_tokens_output |-> EmptyMap,
     model_costs |-> EmptyMap, model_invocations |-> EmptyMap,
     daily_costs |-> EmptyMap, user_daily_costs |-> EmptyMap,
     user_model_costs |-> EmptyMap, user_model_daily_costs |-> EmptyMap,
     total_events |-> 0]

\* RecordCost with the two prices exchanged
RecordCostSwapped(model_id, total_input_tokens, total_output_tokens) ==
    LET pricing == get_model_pricing(model_id)
    IN  total_input_tokens * pricing.output + total_output_tokens * pricing.input

\* cost of one record, in 1e-11 USD: (tokens / 1_000_000) * price, twice, added
RecordCost(model_id, total_input_tokens, total_output_tokens) ==
    LET pricing == get_model_pricing(model_id)
    IN  total_input_tokens * pricing.input + total_output_tokens * pricing.output

\* the aggregation statements of the loop body, for a record that parsed
FoldInto(acc, user, clean_model_id, date_day, invocations, total_input_tokens, total_output_tokens, total_cost) ==
    [user_invocations |-> Add(acc.user_invocations, user, invocations),
     model_usage |-> Add(acc.model_usage, clean_model_id, invocations),
     daily_trend |-> Add(acc.daily_trend, date_day, invocations),
     user_tokens_input |-> Add(acc.user_tokens_input, user, total_input_tokens),
     user_tokens_output |-> Add(acc.user_tokens_output, user, total_output_tokens),
     user_costs |-> Add(acc.user_costs, user, total_cost),
     model_tokens_input |-> Add(acc.model_tokens_input, clean_model_id, total_input_tokens),
     model_tokens_output |-> Add(acc.model_tokens_output, clean_model_id, total_output_tokens),
     model_costs |-> Add(acc.model_costs, clean_model_id, total_cost),
     model_invocations |-> Add(acc.model_invocations, clean_model_id, invocations),
     daily_costs |-> Add(acc.daily_costs, date_day, total_cost),
     user_model_costs |-> Add2(acc.user_model_costs, user, clean_model_id, total_cost),
     user_model_daily_costs |->
         Add3(acc.user_model_daily_costs, user, clean_model_id, date_day, total_cost),
     user_daily_costs |-> Add2(acc.user_daily_costs, user, date_day, total_cost),
     total_events |-> acc.total_events + invocations]

\* the try block of the loop body; `continue` and the except clause both
\* leave the accumulators as they were
ProcessRecord(acc, fields) ==
    LET user_arn == Get(fields, "identity.arn", "Unknown")
        model_id == Get(fields, "modelId", "Unknown")
        date_day == Get(fields, "date_day", "Unknown")
        invocations == FieldInt(fields, "invocations")
        input_tokens == FieldInt(fields, "total_input_tokens")
        cache_write_tokens == FieldInt(fields, "total_cache_write_tokens")
        output_tokens == FieldInt(fields, "total_output_tokens")
    IN  IF user_arn = "Unknown" \/ model_id = "Unknown" THEN acc
        ELSE IF ~(invocations.ok /\ input_tokens.ok /\ cache_write_tokens.ok /\ output_tokens.ok)
             THEN acc
        ELSE LET total_input_tokens == input_tokens.val + cache_write_tokens.val
                 total_output_tokens == output_tokens.val
             IN  FoldInto(acc, normalize_username(ExtractUser(user_arn)),
                          strip_model_prefix(model_id), date_day, invocations.val,
                          total_input_tokens, total_output_tokens,
                          RecordCost(model_id, total_input_tokens, total_output_tokens))

\* the for loop over records[1..n]; the dict comprehension that builds
\* `fields` stands before the try, so its KeyError leaves the function
RECURSIVE ProcessLoop(_, _)
ProcessLoop(recs, n) ==
    IF n = 0 THEN [raised |-> FALSE, acc |-> EmptyAcc]
    ELSE LET before == ProcessLoop(recs, n - 1)
         IN  IF before.raised THEN before
             ELSE IF \E i \in 1..Len(recs[n]) : ~WellFormedEntry(recs[n][i])
                  THEN [raised |-> TRUE, acc |-> before.acc]
             ELSE [raised |-> FALSE, acc |-> ProcessRecord(before.acc, RowFields(recs[n]))]

\* the dict returned when no data was found
NoDataResult ==
    [error |-> "NoData", user_invocations |-> EmptyMap,
     daily_trend |-> EmptyMap, model_usage |-> EmptyMap]

\* the statements after the loop: the emptiness check, the 'Unknown' filters,
\* the totals and the returned dict
BuildResult(acc) ==
    IF DOMAIN acc.user_invocations = {} THEN NoDataResult
    ELSE LET user_tokens_input == Without(acc.user_tokens_input, "Unknown")
             user_tokens_output == Without(acc.user_tokens_output, "Unknown")
             user_costs == Without(acc.user_costs, "Unknown")
             umc == Without(acc.user_model_costs, "Unknown")
         IN  [user_invocations |-> Without(acc.user_invocations, "Unknown"),
              daily_trend |-> acc.daily_trend,
              model_usage |-> Without(acc.model_usage, "Unknown"),
              total_events |-> acc.total_events,
              user_tokens_input |-> user_tokens_input,
              user_tokens_output |-> user_tokens_output,
              user_costs |-> user_costs,
              model_tokens_input |-> Without(acc.model_tokens_input, "Unknown"),
              model_tokens_output |-> Without(acc.model_tokens_output, "Unknown"),
              model_costs |-> Without(acc.model_costs, "Unknown"),
              model_invocations |-> Without(acc.model_invocations, "Unknown"),
              daily_costs |-> acc.daily_costs,
              user_daily_costs |-> Without(acc.user_daily_costs, "Unknown"),
              user_model_costs |-> [u \in DOMAIN umc |-> Without(umc[u], "Unknown")],
              user_model_daily_costs |-> acc.user_model_daily_costs,
              total_input_tokens |-> SumValues(user_tokens_input),
              total_output_tokens |-> SumValues(user_tokens_output),
              total_cost |-> SumValues(user_costs)]

\* [raised |-> TRUE] when an exception leaves the function, else the dict
_process_logs_insights_results(recs) ==
    LET loop == ProcessLoop(recs, Len(recs))
    IN  IF loop.raised THEN [raised |-> TRUE, value |-> NoValue]
        ELSE [raised |-> FALSE, value |-> BuildResult(loop.acc)]

(***************************************************************************)
(* MatrixBuilder: cost_matrix_api                                          *)
(***************************************************************************)
\* the characters of user names and model ids, in code-point order
AsciiOrder ==
    "-./0123456789:ABCDEFGHIJKLMNOPQRSTUVWXYZ[]_abcdefghijklmnopqrstuvwxyz"

\* a < b on str
RECURSIVE StrLess(_, _)
StrLess(a, b) ==
    IF Len(b) = 0 THEN FALSE
    ELSE IF Len(a) = 0 THEN TRUE
    ELSE IF SubSeq(a, 1, 1) = SubSeq(b, 1, 1)
         THEN StrLess(SubSeq(a, 2, Len(a)), SubSeq(b, 2, Len(b)))
    ELSE Find(AsciiOrder, SubSeq(a, 1, 1)) < Find(AsciiOrder, SubSeq(b, 1, 1))

\* sorted(S) for a set of str
RECURSIVE Sorted(_)
Sorted(S) ==
    IF S = {} THEN <<>>
    ELSE LET least == CHOOSE x \in S : \A y \in S \ {x} : StrLess(x, y)
         IN  <<least>> \o Sorted(S \ {least})

\* sum(seq)
RECURSIVE SumSeq(_)
SumSeq(seq) == IF Len(seq) = 0 THEN 0 ELSE seq[1] + SumSeq(Tail(seq))

\* 1e-4 USD in cost units (1e-11 USD): the grid of round(x, 4)
Round4Unit == 10000000

\* round(cost, 4): to the nearest multiple of 1e-4, an exact tie to the even one
Round4(cost) ==
    LET q == cost \div Round4Unit
        r == cost % Round4Unit
    IN  IF 2 * r < Round4Unit THEN q * Round4Unit
        ELSE IF 2 * r > Round4Unit THEN (q + 1) * Round4Unit
        ELSE IF q % 2 = 0 THEN q * Round4Unit
        ELSE (q + 1) * Round4Unit

\* user_model_costs.get(user, {}).get(model, 0)
CellCost(user_model_costs, user, model) ==
    Get(Get(user_model_costs, user, EmptyMap), model, 0)

\* user_total of one row: the loop adds `cost`, the unrounded cell
UserTotal(user_model_costs, user, all_models) ==
    Round4(SumSeq([j \in 1..Len(all_models) |->
                      CellCost(user_model_costs, user, all_models[j])]))

\* model_total of one column: summed over matrix['data']
ModelTotal(rows, model_idx) ==
    Round4(SumSeq([i \in 1..Len(rows) |-> rows[i][model_idx]]))

\* the matrix dict built from a result without 'error'
BuildMatrix(usage) ==
    LET user_model_costs == usage.user_model_costs
        all_users == Sorted(DOMAIN user_model_costs)
        all_models == Sorted(UNION {DOMAIN user_model_costs[u] : u \in DOMAIN user_model_costs})
        rows == [i \in 1..Len(all_users) |->
                    [j \in 1..Len(all_models) |->
                        Round4(CellCost(user_model_costs, all_users[i], all_models[j]))]]
    IN  [users |-> all_users,
         models |-> all_models,
         data |-> rows,
         user_totals |-> [u \in DOMAIN user_model_costs |->
                             UserTotal(user_model_costs, u, all_models)],
         model_totals |-> [m \in {all_models[j] : j \in 1..Len(all_models)} |->
                              ModelTotal(rows, CHOOSE j \in 1..Len(all_models) : all_models[j] = m)],
         total_cost |-> usage.total_cost]

\* the body of cost_matrix_api after get_bedrock_usage returned `usage`
cost_matrix_api(usage) ==
    IF "error" \in DOMAIN usage THEN usage ELSE BuildMatrix(usage)

(***************************************************************************)
(* Inputs of the aggregation pass: rows as get_query_results delivers      *)
(* them, each a list of {'field': ..., 'value': ...} entries with str      *)
(* values.                                                                 *)
(***************************************************************************)
MaxRecords == 3

Entry(f, v) == [field |-> f, value |-> v]

\* a row with all seven fields
Row(arn, model, day, inv, inTok, cwTok, outTok) ==
    << Entry("identity.arn", arn), Entry("modelId", model), Entry("date_day", day),
       Entry("invocations", inv), Entry("total_input_tokens", inTok),
       Entry("total_cache_write_tokens", cwTok), Entry("total_output_tokens", outTok) >>

Haiku3 == "anthropic.claude-3-haiku-20240307-v1:0"

ScenarioRow ==
    Row("arn:aws:sts::1:assumed-role/X/bedrock-aider", "us." \o Haiku3,
        "2025-01-01", "10", "1000", "0", "500")

AliasRow ==
    Row("arn:aws:iam::1:user/bedrock-dirkcli", Haiku3, "2025-01-02", "5", "160", "0", "0")

ProfileRow ==
    Row("arn:aws:iam::1:user/alice",
        "arn:aws:bedrock:us-west-2:1:inference-profile/us.anthropic.claude-3-5-haiku-20241022-v1:0",
        "2025-01-01", "3", "20", "20", "0")

NovaRow ==
    Row("arn:aws:iam::1:user/peterdir", "amazon.nova-pro-v1:0", "2025-01-01", "2", "50", "0", "0")

UnpricedRow ==
    Row("arn:aws:iam::1:root", "meta.llama3-8b-instruct-v1:0", "2025-01-02", "4", "300", "0", "200")

\* a user whose name is the word the filters drop
UnknownNameRow ==
    Row("arn:aws:iam::1:user/Unknown", "us." \o Haiku3, "2025-01-01", "7", "160", "0", "0")

UnknownArnRow == Row("Unknown", Haiku3, "2025-01-01", "1", "160", "0", "0")

UnknownModelRow ==
    Row("arn:aws:iam::1:user/alice", "Unknown", "2025-01-01", "1", "160", "0", "0")

\* no identity.arn entry at all
NoIdentityRow ==
    << Entry("modelId", Haiku3), Entry("date_day", "2025-01-01"), Entry("invocations", "1"),
       Entry("total_input_tokens", "160"), Entry("total_cache_write_tokens", "0"),
       Entry("total_output_tokens", "0") >>

\* a required numeric field that is not a number
NonNumericRow ==
    Row("arn:aws:iam::1:user/alice", Haiku3, "2025-01-01", "6", "n/a", "0", "0")

\* a required numeric field that is missing
MissingFieldRow ==
    << Entry("identity.arn", "arn:aws:iam::1:user/carol"), Entry("modelId", Haiku3),
       Entry("date_day", "2025-01-02"), Entry("invocations", "8"),
       Entry("total_cache_write_tokens", "0"), Entry("total_output_tokens", "0") >>

\* a row one of whose entries has no 'value'
IllFormedRow ==
    << Entry("identity.arn", "arn:aws:iam::1:user/alice"), [field |-> "modelId"],
       Entry("date_day", "2025-01-01"), Entry("invocations", "1"),
       Entry("total_input_tokens", "160"), Entry("total_cache_write_tokens", "0"),
       Entry("total_output_tokens", "0") >>

Rows ==
    {ScenarioRow, AliasRow, ProfileRow, NovaRow, UnpricedRow, UnknownNameRow, UnknownArnRow,
     UnknownModelRow, NoIdentityRow, NonNumericRow, MissingFieldRow, IllFormedRow}

RecordLists == UNION {[1..n -> Rows] : n \in 0..MaxRecords}

(***************************************************************************)
(* QueryOrchestrator: the query cache and get_bedrock_usage                *)
(***************************************************************************)
_cache_ttl == 600
max_wait == 60
poll_interval == 1

\* bounds of the model
MaxCalls == 2
MaxNow == 600

\* the window keys the callers ask for
Days == {7, 30}

\* the threads that serve requests
Callers == {"c1", "c2"}

_get_cache_key(d) == "bedrock_usage_" \o ToString(d)

\* the entry, or None
_get_cached_query_id(d) ==
    IF /\ _get_cache_key(d) \in DOMAIN _query_cache
       /\ now - _query_cache[_get_cache_key(d)].timestamp < _cache_ttl
    THEN _query_cache[_get_cache_key(d)]
    ELSE None

\* the dict after _cache_query_id(d, qid, st)
_cache_query_id(d, qid, st) ==
    Put(_query_cache, _get_cache_key(d),
        [query_id |-> qid, status |-> st, timestamp |-> now])

\* what get_query_results may report as result['status']
Statuses == {"Scheduled", "Running", "Complete", "Failed", "Cancelled", "Timeout", "Unknown"}

\* exceptions the AWS client raises: type and str(e)
ResourceNotFound ==
    [type |-> "ResourceNotFoundException",
     msg |-> "An error occurred (ResourceNotFoundException): log group does not exist"]

ServiceErrors ==
    {ResourceNotFound,
     [type |-> "ClientError", msg |-> "An error occurred (AccessDeniedException): not authorized"],
     [type |-> "ClientError", msg |-> "An error occurred (ExpiredTokenException): token expired"],
     [type |-> "NoCredentialsError", msg |-> "Unable to locate credentials"]}

\* exceptions get_bedrock_usage raises itself
QueryFailed == [type |-> "Exception", msg |-> "CloudWatch Logs Insights query failed: {}"]
QueryCancelled == [type |-> "Exception", msg |-> "CloudWatch Logs Insights query was cancelled"]
QueryTimeout == [type |-> "Exception", msg |-> "CloudWatch Logs Insights query timeout (> 60 seconds)"]
RecordError == [type |-> "KeyError", msg |-> "'value'"]

\* the rows a Complete query may deliver
ServiceRows == {<<>>, <<ScenarioRow>>, <<AliasRow, IllFormedRow>>}

\* the dict of the inner handler: except ResourceNotFoundException
LogGroupNotFound ==
    [error |-> "CloudWatch log group not found", user_invocations |-> EmptyMap,
     daily_trend |-> EmptyMap, model_usage |-> EmptyMap]

\* the dict of the outer handler: except Exception as e
FetchFailed(e) ==
    LET error_msg ==
            IF Contains(e.msg, "AccessDenied")
            THEN "Access Denied: Your AWS credentials do not have permission to access CloudWatch Logs. Error: " \o e.msg
            ELSE IF Contains(e.msg, "ExpiredToken")
            THEN "AWS credentials have expired. Please refresh your credentials."
            ELSE IF Contains(e.msg, "NoCredentialsError") \/ Contains(e.msg, "Unable to locate credentials")
            THEN "No AWS credentials found."
            ELSE e.msg
    IN  [error |-> "Failed to fetch Bedrock usage data: " \o error_msg,
         user_invocations |-> EmptyMap, daily_trend |-> EmptyMap, model_usage |-> EmptyMap]

\* Handle without the outer try: only ResourceNotFoundException is caught
HandleInnerOnly(e, place) ==
    IF place = "query" /\ e.type = "ResourceNotFoundException"
    THEN [raised |-> FALSE, value |-> LogGroupNotFound]
    ELSE [raised |-> TRUE, value |-> NoValue]

\* what get_bedrock_usage does with exception e raised at `place`: inside the
\* inner try ("query") or before it ("client"); [raised |-> TRUE] would be an
\* exception that leaves get_bedrock_usage
Handle(e, place) ==
    IF place = "query" /\ e.type = "ResourceNotFoundException"
    THEN [raised |-> FALSE, value |-> LogGroupNotFound]
    ELSE [raised |-> FALSE, value |-> FetchFailed(e)]

\* PollBranch without the break on Complete
PollBranchNoBreak(st) ==
    IF st = "Failed" THEN "raise_failed"
    ELSE IF st = "Cancelled" THEN "raise_cancelled"
    ELSE "sleep"

\* PollBranch without the raise on Failed
PollBranchIgnoreFailed(st) ==
    IF st = "Complete" THEN "break"
    ELSE IF st = "Cancelled" THEN "raise_cancelled"
    ELSE "sleep"

\* PollBranch that takes the service's own Timeout status for the end
PollBranchTimeoutBreaks(st) ==
    IF st \in {"Complete", "Timeout"} THEN "break"
    ELSE IF st = "Failed" THEN "raise_failed"
    ELSE IF st = "Cancelled" THEN "raise_cancelled"
    ELSE "sleep"

\* the branch the loop body takes on result['status']
PollBranch(st) ==
    IF st = "Complete" THEN "break"
    ELSE IF st = "Failed" THEN "raise_failed"
    ELSE IF st = "Cancelled" THEN "raise_cancelled"
    ELSE "sleep"

\* the timeout test with elapsed counted before the status is looked at
TimedOutEarly(el) == el >= max_wait - poll_interval

\* the statements after the loop without the timeout test
NeverTimedOut(el) == FALSE

\* the test after the loop
TimedOut(el) == el >= max_wait

\* Return that goes back to start_query when the outcome is an error dict
ReturnAndRetry(t, outcome) ==
    /\ pc' = [pc EXCEPT ![t] = IF outcome.raised THEN "crashed"
                                ELSE IF "error" \in DOMAIN outcome.value THEN "start"
                                ELSE "done"]
    /\ ret' = [ret EXCEPT ![t] = outcome.value]
    /\ days' = days
    /\ query_id' = [query_id EXCEPT ![t] = 0]
    /\ elapsed' = [elapsed EXCEPT ![t] = 0]
    /\ status' = [status EXCEPT ![t] = None]

\* the call of caller t ends with `outcome`, a Handle / _process result; the
\* locals of the call go away with its frame
Return(t, outcome) ==
    /\ pc' = [pc EXCEPT ![t] = IF outcome.raised THEN "crashed" ELSE "done"]
    /\ ret' = [ret EXCEPT ![t] = outcome.value]
    /\ days' = [days EXCEPT ![t] = 0]
    /\ query_id' = [query_id EXCEPT ![t] = 0]
    /\ elapsed' = [elapsed EXCEPT ![t] = 0]
    /\ status' = [status EXCEPT ![t] = None]

\* what a reported status says about the query itself
Observed(st) == IF st \in {"Complete", "Failed", "Cancelled"} THEN st ELSE "Running"

\* the history of query q after a step of its caller: the state seen, and
\* whether it was seen Complete by the poll of the last iteration the loop
\* allows
SetState(q, st) ==
    [issued EXCEPT ![q].state = st,
                   ![q].last_poll = /\ st = "Complete"
                                    /\ \E t \in Callers :
                                          /\ query_id[t] = q
                                          /\ elapsed[t] = max_wait - poll_interval]

\* a request handler enters get_bedrock_usage(d)
Begin(t, d) ==
    /\ pc[t] \in {"idle", "done"}
    /\ calls < MaxCalls
    /\ calls' = calls + 1
    /\ pc' = [pc EXCEPT ![t] = "client"]
    /\ days' = [days EXCEPT ![t] = d]
    /\ query_id' = [query_id EXCEPT ![t] = 0]
    /\ elapsed' = [elapsed EXCEPT ![t] = 0]
    /\ status' = [status EXCEPT ![t] = None]
    /\ ret' = [ret EXCEPT ![t] = NoValue]
    /\ UNCHANGED <<now, _query_cache, issued, records, data, matrix, resVars>>

\* boto3.client('logs') and the time range
CreateClient(t) ==
    /\ pc[t] = "client"
    /\ \/ /\ pc' = [pc EXCEPT ![t] = "start"]
          /\ UNCHANGED <<ret, days, query_id, elapsed, status>>
       \/ \E e \in ServiceErrors : Return(t, Handle(e, "client"))
    /\ UNCHANGED <<now, _query_cache, issued, calls, records, data, matrix, resVars>>

\* logs_client.start_query(...): the service creates a query, or raises
StartQuery(t) ==
    /\ pc[t] = "start"
    /\ \/ /\ issued' = Append(issued, [days |-> days[t], at |-> now, state |-> "Running",
                                   last_poll |-> FALSE])
          /\ query_id' = [query_id EXCEPT ![t] = Len(issued) + 1]
          /\ pc' = [pc EXCEPT ![t] = "poll"]
          /\ UNCHANGED <<ret, days, elapsed, status>>
       \/ /\ \E e \in ServiceErrors : Return(t, Handle(e, "query"))
          /\ issued' = issued
    /\ UNCHANGED <<now, _query_cache, calls, records, data, matrix, resVars>>

\* _process_logs_insights_results on each list of rows the service delivers
Processed == [rows \in ServiceRows \cup {<<>>} |-> _process_logs_insights_results(rows)]

\* the statements after the loop, reached with `el` seconds elapsed and the
\* rows of the last result: the timeout test, else the aggregation
AfterLoop(el, rows) ==
    IF TimedOut(el) THEN Handle(QueryTimeout, "query")
    ELSE LET processed == Processed[rows]
         IN  IF processed.raised THEN Handle(RecordError, "query") ELSE processed

\* one iteration of the while loop: get_query_results and the branch on the
\* status; a status that is not final sleeps and increments, `break` goes on
\* to the statements after the loop.  `reported` is the set of statuses the
\* service may answer with.
Poll(t, reported) ==
    /\ pc[t] = "poll"
    /\ elapsed[t] < max_wait
    /\ \/ \E st \in reported :
            CASE PollBranch(st) = "break" ->
                   /\ \E rows \in ServiceRows : Return(t, AfterLoop(elapsed[t], rows))
                   /\ issued' = SetState(query_id[t],
                                         IF TimedOut(elapsed[t]) THEN "TimedOut" ELSE Observed(st))
              [] PollBranch(st) = "raise_failed" ->
                   /\ Return(t, Handle(QueryFailed, "query"))
                   /\ issued' = SetState(query_id[t], Observed(st))
              [] PollBranch(st) = "raise_cancelled" ->
                   /\ Return(t, Handle(QueryCancelled, "query"))
                   /\ issued' = SetState(query_id[t], Observed(st))
              [] OTHER ->
                   /\ status' = [status EXCEPT ![t] = st]
                   /\ elapsed' = [elapsed EXCEPT ![t] = @ + poll_interval]
                   /\ issued' = SetState(query_id[t], Observed(st))
                   /\ UNCHANGED <<pc, ret, days, query_id>>
       \/ \E e \in ServiceErrors :
            /\ Return(t, Handle(e, "query"))
            /\ issued' = SetState(query_id[t], "Abandoned")
    /\ UNCHANGED <<now, _query_cache, calls, records, data, matrix, resVars>>

\* the loop condition fails: the statements after the loop run on the rows
\* of the last result polled, which was not Complete
LoopExit(t) ==
    /\ pc[t] = "poll"
    /\ ~(elapsed[t] < max_wait)
    /\ Return(t, AfterLoop(elapsed[t], <<>>))
    /\ issued' = SetState(query_id[t], IF TimedOut(elapsed[t]) THEN "TimedOut" ELSE "Running")
    /\ UNCHANGED <<now, _query_cache, calls, records, data, matrix, resVars>>

\* wall-clock time passes
Tick ==
    /\ now + _cache_ttl <= MaxNow
    /\ now' = now + _cache_ttl
    /\ UNCHANGED <<_query_cache, pc, days, query_id, elapsed, status, ret,
                   issued, calls, records, data, matrix, resVars>>

Init ==
    /\ now = 0
    /\ _query_cache = EmptyMap
    /\ pc = [t \in Callers |-> "idle"]
    /\ days = [t \in Callers |-> 0]
    /\ query_id = [t \in Callers |-> 0]
    /\ elapsed = [t \in Callers |-> 0]
    /\ status = [t \in Callers |-> None]
    /\ ret = [t \in Callers |-> NoValue]
    /\ issued = <<>>
    /\ calls = 0
    /\ records = <<>>
    /\ data = NoValue
    /\ matrix = NoValue
    /\ raw_model = None
    /\ raw_identity = None
    /\ resolved = NoValue

\* the steps of caller t against a service that answers with `reported`
Step(t, reported) ==
    \/ \E d \in Days : Begin(t, d)
    \/ CreateClient(t)
    \/ StartQuery(t)
    \/ Poll(t, reported)
    \/ LoopExit(t)

\* one caller: requests are served one after the other
Next == Tick \/ Step("c1", Statuses)

Spec == Init /\ [][Next]_vars

\* get_bedrock_usage reads no clock: its waiting is counted in `elapsed`
NextLive == Step("c1", Statuses)

\* the one caller when every get_query_results call returns and the thread
\* keeps running: the loop body and the statements after the loop are taken
\* whenever they are the next statement
SpecLive ==
    Init /\ [][NextLive]_vars /\ WF_vars(Poll("c1", Statuses)) /\ WF_vars(LoopExit("c1"))

\* the statuses of a query that is never Scheduled, Timeout or Unknown
PlainStatuses == {"Running", "Complete", "Failed", "Cancelled"}

\* requests are served by concurrent threads
NextConc == Tick \/ \E t \in Callers : Step(t, PlainStatuses)

SpecConc == Init /\ [][NextConc]_vars

(***************************************************************************)
(* One aggregation pass and the matrix built from it                       *)
(***************************************************************************)
\* get_bedrock_usage once its query is Complete with rows `records`
Aggregate ==
    /\ data = NoValue
    /\ data' = LET processed == _process_logs_insights_results(records)
               IN  IF processed.raised THEN Handle(RecordError, "query") ELSE processed
    /\ UNCHANGED <<records, matrix>>
    /\ UNCHANGED orchVars
    /\ UNCHANGED resVars

\* cost_matrix_api on that result
MatrixRequest ==
    /\ data # NoValue
    /\ matrix = NoValue
    /\ matrix' = cost_matrix_api(data.value)
    /\ UNCHANGED <<records, data>>
    /\ UNCHANGED orchVars
    /\ UNCHANGED resVars

InitAgg ==
    /\ now = 0
    /\ _query_cache = EmptyMap
    /\ pc = [t \in Callers |-> "idle"]
    /\ days = [t \in Callers |-> 0]
    /\ query_id = [t \in Callers |-> 0]
    /\ elapsed = [t \in Callers |-> 0]
    /\ status = [t \in Callers |-> None]
    /\ ret = [t \in Callers |-> NoValue]
    /\ issued = <<>>
    /\ calls = 0
    /\ records \in RecordLists
    /\ data = NoValue
    /\ matrix = NoValue
    /\ raw_model = None
    /\ raw_identity = None
    /\ resolved = NoValue

NextAgg == Aggregate \/ MatrixRequest

SpecAgg == InitAgg /\ [][NextAgg]_vars

(***************************************************************************)
(* The resolvers on the ids and identities of the log records, and one     *)
(* aggregation pass over the region and inference-profile variants of a    *)
(* model id                                                                *)
(***************************************************************************)
ProfileArn == "arn:aws:bedrock:us-west-2:123:inference-profile/"

\* model ids without region prefix and without ARN wrapper: priced ones,
\* unpriced ones, and ids that only a substring relates to a table key
BaseModelIds ==
    {"anthropic.claude-sonnet-4-5-20250929-v1:0",
     "anthropic.claude-sonnet-4-5-20250929-v1:0[1m]",
     "anthropic.claude-3-5-haiku-20241022-v1:0",
     Haiku3,
     "openai.gpt-oss-20b-1:0",
     "amazon.nova-pro-v1:0",
     "deepseek.deepseek-r1",
     "meta.llama3-8b-instruct-v1:0",
     "anthropic.claude-3-opus-20240229-v1:0",
     "anthropic.claude-3-haiku",
     "anthropic.claude-3-haiku-20240307-v1:0:200k",
     "cohere.command_light-text-v14",
     "mistral"}

\* X itself, under each region prefix, and as the inference profile of each
Variants(X) ==
    << X, "us." \o X, "global." \o X, "eu." \o X, "ap." \o X,
       ProfileArn \o "us." \o X, ProfileArn \o "global." \o X,
       ProfileArn \o "eu." \o X, ProfileArn \o "ap." \o X >>

\* ids with two region prefixes, two ARN wrappers, or a wrapper and no region
NestedIds ==
    {"us.eu." \o Haiku3,
     "global.us.anthropic.claude-sonnet-4-5-20250929-v1:0",
     ProfileArn \o ProfileArn \o "us." \o Haiku3,
     ProfileArn \o Haiku3}

ModelIds ==
    BaseModelIds \cup NestedIds \cup {"Unknown", "default"}
        \cup {Variants(X)[i] : X \in BaseModelIds, i \in 1..9}

\* identity.arn values, and bare actor names
Identities ==
    {"bedrock-aider", "aider", "dirkcli", "bedrock-dirkcli", "peterdir", "bedrock-peterdir",
     "alice", "arnold", "bedrock-bedrock-aider", "service:lambda",
     "arn:aws:iam::1:user/bedrock-aider",
     "arn:aws:iam::1:user/alice",
     "arn:aws:iam::1:user/arnold",
     "arn:aws:iam::1:user/Unknown",
     "arn:aws:iam::1:user/team/bedrock-dirkcli",
     "arn:aws:sts::1:assumed-role/X/bedrock-aider",
     "arn:aws:sts::1:assumed-role/bedrock-dirkcli/session",
     "arn:aws:sts::1:assumed-role/role:ops/session",
     "arn:aws:iam::1:root",
     "arn:aws:sts::1:federated-user:bob",
     "arn:aws:iam::1:group"}

\* one row per variant of model id m, all of identity arn
VariantRecords(arn, m) ==
    [i \in 1..Len(Variants(m)) |->
        Row(arn, Variants(m)[i], "2025-01-01", "1", "100", "0", "10")]

\* the rows the log query delivers for identity arn and model id m: one row,
\* or one row per variant when m is a base id
RecordsOf(arn, m) ==
    IF m \in BaseModelIds THEN VariantRecords(arn, m)
    ELSE << Row(arn, m, "2025-01-01", "1", "100", "0", "10") >>

\* the loop body resolves the model id of a record
Canonicalize ==
    /\ resolved = NoValue
    /\ resolved' = [op |-> "strip_model_prefix", value |-> strip_model_prefix(raw_model)]
    /\ UNCHANGED <<raw_model, raw_identity>>
    /\ UNCHANGED orchVars
    /\ UNCHANGED aggVars

\* the loop body prices a record
Price ==
    /\ resolved = NoValue
    /\ resolved' = [op |-> "get_model_pricing", value |-> get_model_pricing(raw_model)]
    /\ UNCHANGED <<raw_model, raw_identity>>
    /\ UNCHANGED orchVars
    /\ UNCHANGED aggVars

\* the API handlers name a model key of the result
DisplayName ==
    /\ resolved = NoValue
    /\ resolved' = [op |-> "get_model_display_name",
                    value |-> get_model_display_name(strip_model_prefix(raw_model))]
    /\ UNCHANGED <<raw_model, raw_identity>>
    /\ UNCHANGED orchVars
    /\ UNCHANGED aggVars

\* the loop body resolves an actor name
NormalizeUser ==
    /\ resolved = NoValue
    /\ resolved' = [op |-> "normalize_username", value |-> normalize_username(raw_identity)]
    /\ UNCHANGED <<raw_model, raw_identity>>
    /\ UNCHANGED orchVars
    /\ UNCHANGED aggVars

InitRes ==
    /\ now = 0
    /\ _query_cache = EmptyMap
    /\ pc = [t \in Callers |-> "idle"]
    /\ days = [t \in Callers |-> 0]
    /\ query_id = [t \in Callers |-> 0]
    /\ elapsed = [t \in Callers |-> 0]
    /\ status = [t \in Callers |-> None]
    /\ ret = [t \in Callers |-> NoValue]
    /\ issued = <<>>
    /\ calls = 0
    /\ raw_model \in ModelIds
    /\ raw_identity \in Identities
    /\ records = RecordsOf(raw_identity, raw_model)
    /\ data = NoValue
    /\ matrix = NoValue
    /\ resolved = NoValue

\* either one resolver is applied, or the records are aggregated
NextRes ==
    \/ data = NoValue /\ Canonicalize
    \/ data = NoValue /\ Price
    \/ data = NoValue /\ DisplayName
    \/ data = NoValue /\ NormalizeUser
    \/ resolved = NoValue /\ Aggregate

SpecRes == InitRes /\ [][NextRes]_vars

(***************************************************************************)
(* Properties                                                              *)
(***************************************************************************)
Queries == 1..Len(issued)

Terminal == {"Complete", "Failed", "Cancelled", "TimedOut"}

IsError(d) == "error" \in DOMAIN d

\* C1: two fetches of the same window less than the TTL apart reuse one
\* query: start_query is issued at most once per window key per TTL period,
\* so no query is started for a window while an earlier, Complete query of
\* that window is younger than the TTL.
C1_OneStartPerTTL ==
    \A q1 \in Queries : \A q2 \in Queries :
        (/\ q1 < q2
         /\ issued[q1].days = issued[q2].days
         /\ issued[q1].state = "Complete")
        => issued[q2].at - issued[q1].at >= _cache_ttl

\* C2: callers that run fetch concurrently for one window key share one
\* query: no two callers are polling different queries of the same window.
C2_OneInFlightPerKey ==
    \A t1 \in Callers : \A t2 \in Callers :
        (pc[t1] = "poll" /\ pc[t2] = "poll" /\ days[t1] = days[t2])
        => query_id[t1] = query_id[t2]

\* the step of caller t takes its query from Running to state st
Reaches(t, st) ==
    /\ pc[t] = "poll"
    /\ issued[query_id[t]].state = "Running"
    /\ issued'[query_id[t]].state = st

\* what a call returns for each list of rows a Complete query may deliver
RowsResults ==
    {IF Processed[rows].raised THEN FetchFailed(RecordError) ELSE Processed[rows].value :
        rows \in ServiceRows}

\* caller t returns the aggregation of rows that its query delivered
ReturnsRows(t) ==
    /\ pc'[t] = "done"
    /\ ret'[t] \in RowsResults

\* caller t returns the error dict whose message contains `text`
ReturnsError(t, text) ==
    /\ pc'[t] = "done"
    /\ IsError(ret'[t])
    /\ Contains(ret'[t].error, text)

\* C3: a query is polled only while Running; from Running a poll that
\* reports Complete ends the call with the rows aggregated, Failed and
\* Cancelled end it with an error, elapsed >= max_wait ends it with the
\* timeout error, and a query in one of the four terminal states stays in it
\* and is not polled again.
C3_QueryStateMachine ==
    /\ [](\A t \in Callers : pc[t] = "poll" =>
            /\ query_id[t] \in Queries
            /\ issued[query_id[t]].state = "Running")
    /\ [][/\ \A q \in Queries : issued[q].state \in Terminal => issued'[q] = issued[q]
          /\ \A t \in Callers :
               /\ Reaches(t, "Complete") => elapsed[t] < max_wait /\ ReturnsRows(t)
               /\ Reaches(t, "Failed") => ReturnsError(t, "query failed")
               /\ Reaches(t, "Cancelled") => ReturnsError(t, "query was cancelled")
               /\ Reaches(t, "TimedOut") =>
                    elapsed[t] >= max_wait /\ ReturnsError(t, "query timeout")
               /\ (pc[t] = "poll" /\ elapsed[t] >= max_wait /\ pc'[t] # pc[t])
                    => Reaches(t, "TimedOut")]_vars

\* a query that timed out and a query that completed
C3_Witness ==
    \E q1 \in Queries : \E q2 \in Queries :
        issued[q1].state = "TimedOut" /\ issued[q2].state = "Complete"

\* C4: when the service reports Failed, the call returns the error dict of
\* the failed query and no exception leaves it; the query cache never holds
\* the failed query; and every later call that gets as far as polling has
\* started a query of its own.
C4_FailedNotReused ==
    /\ [](\A t \in Callers : pc[t] # "crashed")
    /\ [](\A q \in Queries : issued[q].state = "Failed" =>
            /\ \A k \in DOMAIN _query_cache : _query_cache[k].query_id # q
            /\ \A t \in Callers : query_id[t] # q)
    /\ [][\A t \in Callers :
            /\ Reaches(t, "Failed") => ReturnsError(t, "query failed")
            /\ (pc[t] = "start" /\ pc'[t] = "poll") =>
                 /\ Len(issued') = Len(issued) + 1
                 /\ query_id'[t] = Len(issued')
                 /\ issued'[query_id'[t]].state = "Running"]_vars

\* a failed query followed by a new query for the same window
C4_Witness ==
    \E q1 \in Queries : \E q2 \in Queries :
        /\ q1 < q2
        /\ issued[q1].state = "Failed"
        /\ issued[q2].days = issued[q1].days
        /\ \E t \in Callers : pc[t] = "poll" /\ query_id[t] = q2

\* C5: no exception leaves get_bedrock_usage, and a call returns a dict
\* without 'error' only as the aggregation of the rows of a query that
\* completed in time; however else it ends (client creation, start_query, a
\* poll, log group not found, access denied, credentials, Failed, Cancelled,
\* timeout, record processing) it returns a dict that carries 'error'.
C5_ErrorsReturned ==
    /\ [](\A t \in Callers : pc[t] # "crashed")
    /\ [][\A t \in Callers :
            (pc[t] # pc'[t] /\ pc'[t] \notin {"client", "start", "poll"}) =>
               /\ pc'[t] = "done"
               /\ \/ IsError(ret'[t])
                  \/ Reaches(t, "Complete") /\ elapsed[t] < max_wait /\ ReturnsRows(t)]_vars

\* a call that ended in the error of record processing
C5_Witness ==
    \E t \in Callers :
        pc[t] = "done" /\ IsError(ret[t]) /\ Contains(ret[t].error, "'value'")

NumericFields ==
    {"invocations", "total_input_tokens", "total_cache_write_tokens", "total_output_tokens"}

\* a malformed record: an ill-formed entry, or a numeric field that is
\* missing or not a number
Malformed(row) ==
    \/ \E i \in 1..Len(row) : ~WellFormedEntry(row[i])
    \/ \E f \in NumericFields :
         \/ ~(\E i \in 1..Len(row) : row[i].field = f)
         \/ \E i \in 1..Len(row) : row[i].field = f /\ ~IsIntLiteral(row[i].value)

NotMalformed(row) == ~Malformed(row)

\* C6: the pass treats every malformed record as if it were not there: its
\* result is the result for the well-formed records alone, never an error
\* raised by a record.
C6_MalformedSkipped ==
    data # NoValue =>
        LET wellFormed == SelectSeq(records, NotMalformed)
        IN  data.value = BuildResult(ProcessLoop(wellFormed, Len(wellFormed)).acc)

\* C7: a result whose user_invocations is empty is the 'no data' error.
C7_EmptyMeansNoData ==
    (data # NoValue /\ DOMAIN data.value.user_invocations = {}) => IsError(data.value)

\* C8: in a successful result total_events is the sum of user_invocations,
\* and the token and cost totals are the sums of what the records folded in.
C8_TotalsAgree ==
    (data # NoValue /\ ~IsError(data.value)) =>
        /\ data.value.total_events = SumValues(data.value.user_invocations)
        /\ data.value.total_cost = SumValues(data.value.daily_costs)
        /\ data.value.total_input_tokens = SumValues(data.value.model_tokens_input)
        /\ data.value.total_output_tokens = SumValues(data.value.model_tokens_output)

\* cost of each row that is aggregated, from the price list: (input + cache
\* write) * input price + output * output price, in 1e-11 USD
C9_RowCost(row) ==
    IF row = ScenarioRow THEN (1000 + 0) * 25000 + 500 * 125000
    ELSE IF row \in {AliasRow, UnknownNameRow} THEN (160 + 0) * 25000 + 0 * 125000
    ELSE IF row = ProfileRow THEN (20 + 20) * 100000 + 0 * 500000
    ELSE IF row = NovaRow THEN (50 + 0) * 80000 + 0 * 20000
    ELSE 0

\* C9 as stated: the scenario record is aggregated under 'peterdir'.
C9_ScenarioPeterdir ==
    (records = <<ScenarioRow>> /\ data # NoValue) =>
        /\ ~IsError(data.value)
        /\ "peterdir" \in DOMAIN data.value.user_invocations
        /\ data.value.user_invocations["peterdir"] = 10
        /\ data.value.model_usage[Haiku3] = 10
        /\ data.value.total_cost = 87500000

\* C9 amended: every aggregated record contributes (inputTokens +
\* cacheWriteTokens)/1e6 * price.input + outputTokens/1e6 * price.output at
\* the price of its model, and the scenario record is aggregated under the
\* actor name 'X' that follows assumed-role/: user_invocations['X'] = 10,
\* model_usage of the canonical model = 10, cost 0.000875.
C9_CostAndScenario ==
    (data # NoValue /\ ~IsError(data.value)) =>
        /\ SumValues(data.value.daily_costs)
             = SumSeq([i \in 1..Len(records) |-> C9_RowCost(records[i])])
        /\ records = <<ScenarioRow>> =>
             /\ DOMAIN data.value.user_invocations = {"X"}
             /\ data.value.user_invocations["X"] = 10
             /\ data.value.model_usage[Haiku3] = 10
             /\ data.value.user_model_costs["X"][Haiku3] = 87500000
             /\ data.value.total_cost = 87500000

\* the scenario record, aggregated
C9_Witness ==
    /\ records = <<ScenarioRow>>
    /\ data # NoValue
    /\ "X" \in DOMAIN data.value.user_invocations

\* C10: in every matrix each row of cells sums to the user's total and each
\* column of cells sums to the model's total.
C10_TotalsMatchCells ==
    (matrix # NoValue /\ ~IsError(matrix)) =>
        /\ \A i \in 1..Len(matrix.users) :
             SumSeq(matrix.data[i]) = matrix.user_totals[matrix.users[i]]
        /\ \A j \in 1..Len(matrix.models) :
             SumSeq([i \in 1..Len(matrix.users) |-> matrix.data[i][j]])
               = matrix.model_totals[matrix.models[j]]

\* C11: in every matrix built from a non-empty record set the sum of all
\* cells differs from total_cost by at most 1e-4, however many cells there
\* are.
C11_CellsSumToTotal ==
    (matrix # NoValue /\ ~IsError(matrix)) =>
        LET cells == SumSeq([i \in 1..Len(matrix.users) |-> SumSeq(matrix.data[i])])
        IN  /\ cells - matrix.total_cost <= Round4Unit
            /\ matrix.total_cost - cells <= Round4Unit

Applied(fn) == resolved # NoValue /\ resolved.op = fn

\* C12: canonicalizing a canonical model id changes nothing, for every model
\* id, ids with several region prefixes or several ARN wrappers included.
C12_CanonicalizeIdempotent ==
    Applied("strip_model_prefix") =>
        strip_model_prefix(resolved.value) = resolved.value

\* a model id proper: no region prefix in front, no ARN wrapper, not the
\* placeholder of a missing modelId
PlainModelId(m) ==
    /\ ~Contains(m, ":inference-profile/")
    /\ ~(Contains(m, ".") /\ BeforeFirst(m, ".") \in RegionPrefixes)
    /\ m # "Unknown"

\* C13: for a model id X without region prefix, X, r.X and the inference
\* profile ARN of r.X (r in us, global, eu, ap) all canonicalize to X, and
\* records that use these variants are aggregated under the one model key
\* X; the us-west-2 inference profile of us.anthropic.claude-sonnet-4-5-
\* 20250929-v1:0 canonicalizes to anthropic.claude-sonnet-4-5-20250929-v1:0.
C13_VariantsShareCanonicalId ==
    /\ PlainModelId(raw_model) =>
          /\ \A i \in 1..Len(Variants(raw_model)) :
                strip_model_prefix(Variants(raw_model)[i]) = raw_model
          /\ Applied("strip_model_prefix") => resolved.value = raw_model
          /\ (data # NoValue /\ records = VariantRecords(raw_identity, raw_model)) =>
                /\ ~IsError(data.value)
                /\ DOMAIN data.value.model_usage = {raw_model}
                /\ data.value.model_usage[raw_model] = Len(Variants(raw_model))
                /\ DOMAIN data.value.model_costs = {raw_model}
                /\ \A u \in DOMAIN data.value.user_model_costs :
                      DOMAIN data.value.user_model_costs[u] = {raw_model}
    /\ (/\ Applied("strip_model_prefix")
        /\ raw_model = ProfileArn \o "us.anthropic.claude-sonnet-4-5-20250929-v1:0")
          => resolved.value = "anthropic.claude-sonnet-4-5-20250929-v1:0"

\* the nine variants of one model id, aggregated
C13_Witness ==
    /\ raw_model = "anthropic.claude-sonnet-4-5-20250929-v1:0"
    /\ data # NoValue
    /\ Len(records) = 9
    /\ ~IsError(data.value)
    /\ data.value.model_usage[raw_model] = 9

\* C14: the display name of anthropic.claude-3-5-haiku-20241022-v1:0 is
\* 'Claude 3.5 Haiku'.
C14_DisplayNameHaiku ==
    (Applied("get_model_display_name") /\ raw_model = "anthropic.claude-3-5-haiku-20241022-v1:0")
        => resolved.value = "Claude 3.5 Haiku"

TableKeys == {BEDROCK_PRICING[i].key : i \in 1..Len(BEDROCK_PRICING)}

\* C15 as stated: an id that is not a key of the table, raw or canonical,
\* gets the default entry and the warning, and only keys get a price.
C15_AbsentMeansDefault ==
    Applied("get_model_pricing") =>
        LET present == {raw_model, strip_model_prefix(raw_model)} \cap TableKeys # {}
        IN  /\ ~present => resolved.value = [input |-> 0, output |-> 0, warned |-> TRUE]
            /\ (resolved.value.input # 0 \/ resolved.value.output # 0) => present

\* the table keys that the id, raw or canonical, equals, contains or is
\* contained in
MatchingKeys(m) ==
    {k \in TableKeys :
        \E id \in {m, strip_model_prefix(m)} : k = id \/ Contains(id, k) \/ Contains(k, id)}

\* C15 amended: the lookup always returns an entry; it prints the warning
\* and returns the default entry {0, 0} exactly for the ids that match no
\* table key, where an id matches a key when, raw or canonical, it equals
\* the key, contains it or is contained in it; a price that is not zero is
\* the price of a matching key.
C15_UnmatchedMeansDefault ==
    Applied("get_model_pricing") =>
        /\ resolved.value.warned <=> MatchingKeys(raw_model) = {}
        /\ resolved.value.warned => resolved.value.input = 0 /\ resolved.value.output = 0
        /\ ~resolved.value.warned =>
              \E i \in 1..Len(BEDROCK_PRICING) :
                  /\ BEDROCK_PRICING[i].key \in MatchingKeys(raw_model)
                  /\ resolved.value.input = BEDROCK_PRICING[i].input
                  /\ resolved.value.output = BEDROCK_PRICING[i].output

\* an id that matches no key was priced
C15_Witness ==
    /\ Applied("get_model_pricing")
    /\ raw_model = "meta.llama3-8b-instruct-v1:0"
    /\ resolved.value.warned

\* C16: 'bedrock-aider', 'aider', 'dirkcli', 'bedrock-dirkcli', 'peterdir'
\* and 'bedrock-peterdir' all resolve to 'peterdir', and no name resolves to
\* an alias.
C16_AliasesToPrimary ==
    Applied("normalize_username") =>
        /\ raw_identity \in {"bedrock-aider", "aider", "dirkcli", "bedrock-dirkcli",
                              "peterdir", "bedrock-peterdir"}
              => resolved.value = "peterdir"
        /\ resolved.value \notin {"aider", "dirkcli"}

\* an alias with the prefix was resolved
C16_Witness ==
    /\ Applied("normalize_username")
    /\ raw_identity = "bedrock-dirkcli"
    /\ resolved.value = "peterdir"

\* a name that looks like an opaque identity
Opaque(name) == Contains(name, ":") \/ StartsWith(name, "arn")

\* the actor name of an identity, with 'bedrock-' taken off
StrippedActor(arn) ==
    IF StartsWith(ExtractUser(arn), "bedrock-")
    THEN SubSeq(ExtractUser(arn), 9, Len(ExtractUser(arn)))
    ELSE ExtractUser(arn)

\* every user key of a result
UserKeys(d) ==
    DOMAIN d.user_invocations \cup DOMAIN d.user_tokens_input
        \cup DOMAIN d.user_tokens_output \cup DOMAIN d.user_costs
        \cup DOMAIN d.user_daily_costs \cup DOMAIN d.user_model_costs
        \cup DOMAIN d.user_model_daily_costs

\* C17: an identity whose actor name, 'bedrock-' taken off, is not in the
\* alias table and contains ':' or starts with 'arn' is aggregated under
\* 'Other', and no user key of a result other than 'Other' contains ':' or
\* starts with 'arn'.
C17_OpaqueIsOther ==
    (data # NoValue /\ ~IsError(data.value)) =>
        /\ (/\ Opaque(StrippedActor(raw_identity))
            /\ StrippedActor(raw_identity) \notin {"peterdir", "aider", "dirkcli"})
              => UserKeys(data.value) = {"Other"}
        /\ \A u \in UserKeys(data.value) : u = "Other" \/ ~Opaque(u)

\* the records of an opaque identity, aggregated
C17_Witness ==
    /\ raw_identity = "arn:aws:sts::1:federated-user:bob"
    /\ data # NoValue
    /\ ~IsError(data.value)
    /\ "Other" \in DOMAIN data.value.user_invocations

\* a record that resolves to the sentinel 'Unknown' as user or as model
Sentinel(row) ==
    \/ normalize_username(ExtractUser(Get(RowFields(row), "identity.arn", "Unknown"))) = "Unknown"
    \/ strip_model_prefix(Get(RowFields(row), "modelId", "Unknown")) = "Unknown"

NotSentinel(row) == ~Sentinel(row)

\* C18: records whose user or model is 'Unknown' add nothing: a successful
\* result is the result for the other records alone, and 'Unknown' is no
\* user key and no model key of it.
C18_UnknownNotAggregated ==
    (data # NoValue /\ ~IsError(data.value)) =>
        LET others == SelectSeq(records, NotSentinel)
        IN  /\ data.value = BuildResult(ProcessLoop(others, Len(others)).acc)
            /\ "Unknown" \notin UserKeys(data.value)
            /\ "Unknown" \notin DOMAIN data.value.model_usage

\* caller t holds the error dict whose message contains `text`
HoldsError(t, text) ==
    pc[t] = "done" /\ IsError(ret[t]) /\ Contains(ret[t].error, text)

\* C19: whatever statuses the service reports, the poll loop ends: a poll
\* is made only while elapsed < max_wait and every poll that does not end
\* the call adds poll_interval to elapsed, so there are at most 60 polls;
\* a call that is polling ends, and the step that ends one that has polled
\* for max_wait seconds without a final status returns the timeout error.
C19_PollLoopTerminates ==
    /\ [](\A t \in Callers : elapsed[t] <= max_wait)
    /\ [][\A t \in Callers :
            /\ (pc[t] = "poll" /\ now' = now /\ pc'[t] = "poll") =>
                  /\ elapsed[t] < max_wait
                  /\ elapsed'[t] = elapsed[t] + poll_interval
            /\ (pc[t] = "poll" /\ now' = now /\ elapsed[t] >= max_wait) =>
                  ReturnsError(t, "query timeout")]_vars
    /\ \A t \in Callers : (pc[t] = "poll") ~> (pc[t] = "done")

\* a call that ended with the timeout error
C19_Witness ==
    \E t \in Callers :
        /\ HoldsError(t, "query timeout")
        /\ \E q \in Queries : issued[q].state = "TimedOut"

\* C20: a call starts at most one query; when its query is seen Failed,
\* Cancelled or timed out the call returns the error in that step, starts
\* no query and polls no more; a query is started only by a call that a
\* request began, once.
C20_NoAutomaticRetry ==
    /\ [](Len(issued) <= calls)
    /\ [](\A q \in Queries : issued[q].state \in {"Failed", "Cancelled", "TimedOut"} =>
            \A t \in Callers : query_id[t] # q)
    /\ [][\A t \in Callers :
            /\ \A st \in {"Failed", "Cancelled", "TimedOut"} :
                  Reaches(t, st) =>
                      /\ pc'[t] = "done"
                      /\ IsError(ret'[t])
                      /\ Len(issued') = Len(issued)
            /\ pc[t] = "poll" =>
                  /\ pc'[t] \in {"poll", "done"}
                  /\ pc'[t] = "poll" => query_id'[t] = query_id[t]
            /\ (pc[t] # "start" /\ pc'[t] = "start") => pc[t] = "client"
            /\ (pc[t] # "client" /\ pc'[t] = "client") => calls' = calls + 1
            /\ Len(issued') > Len(issued) =>
                  /\ Len(issued') = Len(issued) + 1
                  /\ \E u \in Callers : pc[u] = "start" /\ pc'[u] = "poll"]_vars

\* a call whose only query was cancelled, returned as an error
C20_Witness ==
    /\ calls = 1
    /\ Len(issued) = 1
    /\ issued[1].state = "Cancelled"
    /\ \E t \in Callers : HoldsError(t, "query was cancelled")

\* the statuses that are neither Complete nor Failed nor Cancelled
NotFinal == Statuses \ {"Complete", "Failed", "Cancelled"}

\* C21: a query reported Complete on any poll the loop makes, the one at
\* elapsed = 59 included, ends its call with the rows aggregated and not
\* with the timeout error; the timeout error is returned only after 60
\* polls (elapsed = max_wait), the last of which, like the others, reported
\* neither Complete nor Failed nor Cancelled.
C21_CompleteBeatsTimeout ==
    /\ [](\A t \in Callers : pc[t] = "poll" =>
            /\ status[t] \in NotFinal \cup {None}
            /\ status[t] = None <=> elapsed[t] = 0)
    /\ [][\A t \in Callers :
            /\ Reaches(t, "Complete") =>
                  /\ elapsed[t] <= max_wait - poll_interval
                  /\ ReturnsRows(t)
                  /\ ~ReturnsError(t, "query timeout")
            /\ (pc[t] = "poll" /\ ReturnsError(t, "query timeout")) =>
                  /\ elapsed[t] = max_wait
                  /\ status[t] \in NotFinal
                  /\ issued'[query_id[t]].state = "TimedOut"]_vars

\* a query that was Complete on the poll at elapsed = 59, returned as success
C21_Witness ==
    \E q \in Queries : \E t \in Callers :
        /\ issued[q].state = "Complete"
        /\ issued[q].last_poll
        /\ pc[t] = "done"
        /\ ~IsError(ret[t])
        /\ Len(issued) = q

\* C22: a poll that reports a status other than Complete, Failed or
\* Cancelled leaves the call polling, with poll_interval more elapsed and
\* nothing returned; a call whose query was never seen in one of those
\* three ends, unless the service raises, only with the timeout error at
\* elapsed = max_wait, and a call returns a result without 'error' only for
\* a query seen Complete.
C22_OtherStatusKeepsPolling ==
    [][\A t \in Callers :
         /\ (pc[t] = "poll" /\ pc'[t] = "poll" /\ now' = now) =>
               /\ status'[t] \in NotFinal
               /\ elapsed'[t] = elapsed[t] + poll_interval
               /\ issued'[query_id[t]].state = "Running"
               /\ ret'[t] = ret[t]
               /\ query_id'[t] = query_id[t]
         /\ (/\ pc[t] = "poll"
             /\ pc'[t] # "poll"
             /\ issued'[query_id[t]].state \notin {"Complete", "Failed", "Cancelled", "Abandoned"}) =>
               /\ elapsed[t] = max_wait
               /\ ReturnsError(t, "query timeout")
         /\ (pc[t] = "poll" /\ pc'[t] # "poll" /\ ~IsError(ret'[t])) =>
               Reaches(t, "Complete")]_vars

\* a query that the service itself reports as Timeout, polled to the end
C22_Witness ==
    \E t \in Callers :
        /\ pc[t] = "poll"
        /\ status[t] = "Timeout"
        /\ elapsed[t] = max_wait
        /\ issued[query_id[t]].state = "Running"

\* C23: in a successful result each user's cost is the sum of that user's
\* costs per model and per day, the costs per model, per day and per user
\* have one sum, the invocations per model, per day and per user have one
\* sum, and model_invocations is model_usage.
C23_DimensionsAgree ==
    (data # NoValue /\ ~IsError(data.value)) =>
        /\ \A u \in DOMAIN data.value.user_costs :
              /\ u \in DOMAIN data.value.user_model_costs
              /\ u \in DOMAIN data.value.user_daily_costs
              /\ data.value.user_costs[u] = SumValues(data.value.user_model_costs[u])
              /\ data.value.user_costs[u] = SumValues(data.value.user_daily_costs[u])
        /\ SumValues(data.value.model_costs) = SumValues(data.value.daily_costs)
        /\ SumValues(data.value.daily_costs) = SumValues(data.value.user_costs)
        /\ SumValues(data.value.model_usage) = SumValues(data.value.daily_trend)
        /\ SumValues(data.value.daily_trend) = SumValues(data.value.user_invocations)
        /\ data.value.model_invocations = data.value.model_usage

====
